---- MODULE Spec2Model ----
(***************************************************************************)
(* GuardsME patrol controller (src/App.tsx, second App component) with the *)
(* deep-scan client (src/services/soundUtils.ts, performDeepScan) and the  *)
(* camera component (src/components/VideoFeed.tsx).                        *)
(*                                                                         *)
(* React state is held in variables of the same names.  Every handler is   *)
(* one action; a handler that awaits is split at the await: the part up to *)
(* the await is one action, the continuation is another action that fires  *)
(* when the awaited call settles.                                          *)
(***************************************************************************)
EXTENDS Integers, Sequences, FiniteSets, TLC

VARIABLES
    \* ---- React state of App (src/App.tsx:327-344)
    patrolState, threatLevel, logs, baselineData, baselineImage,
    sessionStartTime, sessionStats, sessionDuration, evidence,
    isVerifying, authError,
    \* ---- refs of App (src/App.tsx:346-354)
    streamRef, sessionRef, videoIntervalRef,
    inputAudioContextRef, outputAudioContextRef,
    \* ---- objects created by connectLiveAgent, one set per connection attempt
    sessions, audioContexts,
    \* ---- asynchronous work in flight
    camStarts,       \* getUserMedia calls pending whose onStreamReady saw BASELINE
    baselineTimers,  \* setTimeout(captureBaseline, 1000) pending
    baselineScans,   \* frames of the performDeepScan calls awaited by captureBaseline
    authScan,        \* the performDeepScan call awaited by handleAuthSubmit
    manualScans,     \* performDeepScan calls awaited by handleDeepScan
    \* ---- the media streams of the live session
    timers,            \* the setInterval timers of connectLiveAgent, one per attempt
    framesSent,        \* frames handed to sendRealtimeInput by the frame timer
    chunksSent,        \* microphone chunks handed to sendRealtimeInput
    nextStartTimeRef,  \* useRef(0): where the next audio buffer is to start, in ms
    outputClock,       \* currentTime of each output AudioContext, in ms
    decoding,          \* audio payloads whose decodeAudioData is awaited by onmessage
    scheduled,         \* the buffer sources started, in the order of their start() calls
    \* ---- environment
    apiKey,          \* process.env.API_KEY is set
    now,             \* Date.now(), in ms
    \* ---- history: the handler that ran last, with its inputs and outcome,
    \* and how far the patrol state has come along IDLE, BASELINE, REVIEW,
    \* ACTIVE, AUTH, SUMMARY, IDLE since it last left IDLE
    last, cycle

reactVars == <<patrolState, threatLevel, logs, baselineData, baselineImage,
               sessionStartTime, sessionStats, sessionDuration, evidence,
               isVerifying, authError>>
refVars   == <<streamRef, sessionRef, videoIntervalRef,
               inputAudioContextRef, outputAudioContextRef>>
connVars  == <<sessions, audioContexts>>
asyncVars == <<camStarts, baselineTimers, baselineScans, authScan, manualScans>>
streamVars == <<framesSent, chunksSent, nextStartTimeRef, outputClock, decoding, scheduled>>
vars      == <<reactVars, refVars, connVars, asyncVars, timers, streamVars,
               apiKey, now, last, cycle>>

----------------------------------------------------------------------------
(* Bounds of the model                                                     *)

MaxSessions      == 2    \* connection attempts of one run (all specifications)
MaxPending       == 2    \* camera starts, baseline timers and baseline scans in flight
MaxLogs          == 5    \* Spec: log entries
MaxConfirms      == 1    \* Spec: connection attempts
MaxStoreLogs     == 23   \* SpecStore: log entries
MaxThreats       == 9    \* SpecStore: DANGER narrations
MaxManual        == 1    \* SpecStore: manual scans
MaxElapsed       == 2500 \* SpecStore: ms the clock advances
MaxNarrationLogs == 6    \* SpecNarration: log entries
MaxReportLogs    == 7    \* SpecReport: log entries
MaxReportThreats == 1    \* SpecReport: DANGER narrations
MaxStreamLogs    == 5    \* SpecStream: log entries
MaxStreamConfirms == 1   \* SpecStream: connection attempts
MaxStreamElapsed == 2500 \* SpecStream: ms the clock advances
MaxFrames        == 2    \* SpecStream: frames sent by the frame timer
MaxChunks        == 2    \* SpecStream: audio payloads received
MaxScanLogs      == 7    \* SpecScan: log entries
MaxScanThreats   == 1    \* SpecScan: DANGER narrations
MaxScans         == 1    \* SpecScan: manual scans
MaxMicChunks     == 1    \* SpecScan: microphone chunks sent
MaxReopenLogs    == 8    \* SpecReopen: log entries
MaxReopenConfirms == 2   \* SpecReopen: connection attempts
MaxCountersLogs  == 8    \* SpecCounters: log entries
MaxCountersConfirms == 2 \* SpecCounters: connection attempts
MaxCountersThreats == 1  \* SpecCounters: DANGER narrations
MaxCountersScans == 1    \* SpecCounters: manual scans
MaxFragmentLogs  == 7    \* SpecFragments: log entries
MaxMalformedLogs == 7    \* SpecMalformed: log entries
MaxMalformedThreats == 1 \* SpecMalformed: DANGER narrations
MaxTickLogs      == 8    \* SpecTicks: log entries
MaxTickConfirms  == 2    \* SpecTicks: connection attempts
MaxTicks         == 2    \* SpecTicks: frames sent by the frame timer
MaxReplayLogs    == 5    \* SpecReplay: log entries
MaxReplayConfirms == 2   \* SpecReplay: connection attempts

----------------------------------------------------------------------------
(* Values                                                                  *)

null    == <<>>            \* null / none: the empty option
Some(x) == <<x>>
Get(o)  == o[1]

NaN == 0 - 1               \* the value of an Invalid Date; real times are >= 0

PatrolStates == {"IDLE", "BASELINE", "REVIEW", "ACTIVE", "AUTH", "SUMMARY"}

\* enum ThreatLevel
ThreatLevel == [SAFE |-> "SAFE", CAUTION |-> "CAUTION", DANGER |-> "DANGER",
                ANALYZING |-> "ANALYZING"]

\* the epoch time at which the page is loaded, and the clock advances
StartClock == 3 * 3600000 + 59 * 60000 + 58 * 1000 + 500
Deltas     == {1500, 2500}

----------------------------------------------------------------------------
(* Strings.  A JavaScript string is named by a TLA+ string; Chars gives    *)
(* its characters, on which length, toUpperCase and includes work.         *)

Chars(text) ==
    CASE text = "ALERT: Unauthorized Biometric Detected" ->
         <<"A", "L", "E", "R", "T", ":", " ", "U", "n", "a", "u", "t", "h",
           "o", "r", "i", "z", "e", "d", " ", "B", "i", "o", "m", "e", "t",
           "r", "i", "c", " ", "D", "e", "t", "e", "c", "t", "e", "d">>
      [] text = "Status: Secure. Terminal Vacant." ->
         <<"S", "t", "a", "t", "u", "s", ":", " ", "S", "e", "c", "u", "r",
           "e", ".", " ", "T", "e", "r", "m", "i", "n", "a", "l", " ", "V",
           "a", "c", "a", "n", "t", ".">>
      [] text = "hmm" ->
         <<"h", "m", "m">>
      [] text = "WARNING: Unidentified subject in proximity." ->
         <<"W", "A", "R", "N", "I", "N", "G", ":", " ", "U", "n", "i", "d",
           "e", "n", "t", "i", "f", "i", "e", "d", " ", "s", "u", "b", "j",
           "e", "c", "t", " ", "i", "n", " ", "p", "r", "o", "x", "i", "m",
           "i", "t", "y", ".">>
      [] text = "Danger passed, area safe" ->
         <<"D", "a", "n", "g", "e", "r", " ", "p", "a", "s", "s", "e", "d",
           ",", " ", "a", "r", "e", "a", " ", "s", "a", "f", "e">>
      [] text = "safe" ->
         <<"s", "a", "f", "e">>
      [] text = "Scanning the room" ->
         <<"S", "c", "a", "n", "n", "i", "n", "g", " ", "t", "h", "e", " ",
           "r", "o", "o", "m">>
      [] text = "Status: Authorized. Principal Verified." ->
         <<"S", "t", "a", "t", "u", "s", ":", " ", "A", "u", "t", "h", "o",
           "r", "i", "z", "e", "d", ".", " ", "P", "r", "i", "n", "c", "i",
           "p", "a", "l", " ", "V", "e", "r", "i", "f", "i", "e", "d", ".">>
      [] text = "Unknown subject, caution" ->
         <<"U", "n", "k", "n", "o", "w", "n", " ", "s", "u", "b", "j", "e",
           "c", "t", ",", " ", "c", "a", "u", "t", "i", "o", "n">>
      [] text = "intruder" ->
         <<"i", "n", "t", "r", "u", "d", "e", "r">>
      [] text = "Access attempt at terminal" ->
         <<"A", "c", "c", "e", "s", "s", " ", "a", "t", "t", "e", "m", "p",
           "t", " ", "a", "t", " ", "t", "e", "r", "m", "i", "n", "a", "l">>
      [] text = "unsafe" ->
         <<"u", "n", "s", "a", "f", "e">>
      [] text = "Unknown danger" ->
         <<"U", "n", "k", "n", "o", "w", "n", " ", "d", "a", "n", "g", "e",
           "r">>
      [] text = "Secure? Warning!" ->
         <<"S", "e", "c", "u", "r", "e", "?", " ", "W", "a", "r", "n", "i",
           "n", "g", "!">>
      [] text = "Verified" ->
         <<"V", "e", "r", "i", "f", "i", "e", "d">>
      [] text = "ok" ->
         <<"o", "k">>
      [] text = "safe." ->
         <<"s", "a", "f", "e", ".">>
      [] text = "" ->
         <<>>
      [] text = "hunter2" ->
         <<"h", "u", "n", "t", "e", "r", "2">>
      [] text = "DANGER" ->
         <<"D", "A", "N", "G", "E", "R">>
      [] text = "UNAUTHORIZED" ->
         <<"U", "N", "A", "U", "T", "H", "O", "R", "I", "Z", "E", "D">>
      [] text = "INTRUDER" ->
         <<"I", "N", "T", "R", "U", "D", "E", "R">>
      [] text = "ACCESS ATTEMPT" ->
         <<"A", "C", "C", "E", "S", "S", " ", "A", "T", "T", "E", "M", "P",
           "T">>
      [] text = "WARNING" ->
         <<"W", "A", "R", "N", "I", "N", "G">>
      [] text = "CAUTION" ->
         <<"C", "A", "U", "T", "I", "O", "N">>
      [] text = "UNKNOWN" ->
         <<"U", "N", "K", "N", "O", "W", "N">>
      [] text = "SAFE" ->
         <<"S", "A", "F", "E">>
      [] text = "VERIFIED" ->
         <<"V", "E", "R", "I", "F", "I", "E", "D">>
      [] text = "SECURE" ->
         <<"S", "E", "C", "U", "R", "E">>
      [] text = "AUTHORIZED" ->
         <<"A", "U", "T", "H", "O", "R", "I", "Z", "E", "D">>

\* the narration texts the perception agent may send (outputTranscription.text)
AllTexts ==
    {"ALERT: Unauthorized Biometric Detected",
     "Status: Secure. Terminal Vacant.",
     "hmm",
     "WARNING: Unidentified subject in proximity.",
     "Danger passed, area safe",
     "safe",
     "Scanning the room",
     "Status: Authorized. Principal Verified.",
     "Unknown subject, caution",
     "intruder",
     "Access attempt at terminal",
     "unsafe",
     "Unknown danger",
     "Secure? Warning!",
     "Verified",
     "ok"}

\* narration fragments around the length from which a text is logged
FragmentTexts == {"hmm", "safe", "safe.", "unsafe", "intruder"}

\* String.prototype.toUpperCase on the characters of a string (ASCII)
UpperOf ==
    ("a" :> "A") @@ ("b" :> "B") @@ ("c" :> "C") @@ ("d" :> "D") @@ ("e" :> "E")
    @@ ("f" :> "F") @@ ("g" :> "G") @@ ("h" :> "H") @@ ("i" :> "I") @@ ("j" :> "J")
    @@ ("k" :> "K") @@ ("l" :> "L") @@ ("m" :> "M") @@ ("n" :> "N") @@ ("o" :> "O")
    @@ ("p" :> "P") @@ ("q" :> "Q") @@ ("r" :> "R") @@ ("s" :> "S") @@ ("t" :> "T")
    @@ ("u" :> "U") @@ ("v" :> "V") @@ ("w" :> "W") @@ ("x" :> "X") @@ ("y" :> "Y")
    @@ ("z" :> "Z")

toUpperCase(s) ==
    [i \in 1..Len(s) |-> IF s[i] \in DOMAIN UpperOf THEN UpperOf[s[i]] ELSE s[i]]

\* String.prototype.includes: k occurs in s as a contiguous substring
includes(s, k) ==
    \E i \in 1..(Len(s) - Len(k) + 1) : SubSeq(s, i, i + Len(k) - 1) = k

\* String.prototype.length
length(text) == Len(Chars(text))

----------------------------------------------------------------------------
(* Helpers of App                                                          *)

\* One log entry.  The random id and the wall-clock timestamp of the entry
\* are not kept: nothing in the program reads them.
LogEntry(message, source) ==
    [message |-> message, source |-> source, level |-> "info"]

\* addLog: setLogs(prev => [...prev, newLog])
addLog(prev, message, source) == Append(prev, LogEntry(message, source))

\* VideoFeed is rendered with isActive in these patrol states only
isActive(ps) == ps \in {"BASELINE", "REVIEW", "ACTIVE", "AUTH"}

\* videoRef.current of App: the imperative handle of VideoFeed, attached
\* as long as App is mounted
videoRefCurrent == TRUE

\* VideoFeedHandle.captureFrame: null without a <video> element (VideoFeed
\* not active); else the part of the data URL after the comma, which is the
\* empty string (falsy) when the camera has no picture yet.  A captured
\* frame is named by the time it was taken at.
captureFrame(cameraYields) ==
    IF isActive(patrolState) /\ cameraYields THEN Some(now) ELSE null

\* The re-render after a state change runs the effect of VideoFeed again
\* (its dependency onStreamReady is a new function on every render of App):
\* with isActive it calls getUserMedia once more, and the handleStreamReady
\* it will call is the one of this render.  Only the calls whose
\* handleStreamReady saw patrolState === 'BASELINE' are counted.
VideoFeedEffect(ps) == IF ps = "BASELINE" THEN camStarts + 1 ELSE camStarts

----------------------------------------------------------------------------
(* performDeepScan                                                         *)

\* What the reasoning service answers to generateContent
JsonValues ==
    [threatLevel : {"SAFE", "CAUTION", "DANGER", "BOGUS"},
     analysis : {"SUBJECT: profile"}, action : {"advice"}, confidence : {90}]

ServiceReplies ==
    [kind : {"json"}, value : JsonValues]            \* response.text parses
      \cup {[kind |-> "empty"],                      \* no response.text
            [kind |-> "unparsable"],                 \* JSON.parse throws
            [kind |-> "error"]}                      \* the request rejects or times out

FailSafe ==
    [threatLevel |-> ThreatLevel.SAFE,
     analysis |-> "Sensor input degraded. Unable to process biometric data.",
     action |-> "Maintain Lock", confidence |-> 0]

Return(v) == [threw |-> FALSE, value |-> v]
Throw(e)  == [threw |-> TRUE, error |-> e]

performDeepScan(reply) ==
    IF ~apiKey THEN Throw("API Key missing")
    ELSE IF reply.kind = "json" THEN Return(reply.value)
    ELSE Return(FailSafe)

----------------------------------------------------------------------------
(* Threat classification of a narration text                               *)

DangerKeywords  == {"DANGER", "UNAUTHORIZED", "INTRUDER", "ACCESS ATTEMPT"}
CautionKeywords == {"WARNING", "CAUTION", "UNKNOWN"}
SafeKeywords    == {"SAFE", "VERIFIED", "SECURE", "AUTHORIZED"}

includesAny(upperText, keywords) ==
    \E k \in keywords : includes(upperText, Chars(k))

\* faulty variant of keywordLevel: the SAFE keywords are looked for first
keywordLevel_safeFirst(text) ==
    LET upperText == toUpperCase(Chars(text))
    IN  IF includesAny(upperText, SafeKeywords) THEN ThreatLevel.SAFE
        ELSE IF includesAny(upperText, CautionKeywords) THEN ThreatLevel.CAUTION
        ELSE IF includesAny(upperText, DangerKeywords) THEN ThreatLevel.DANGER
        ELSE "NONE"

\* faulty variant of keywordLevel: a CAUTION keyword takes the DANGER branch
keywordLevel_cautionAlarms(text) ==
    LET upperText == toUpperCase(Chars(text))
    IN  IF includesAny(upperText, DangerKeywords \cup CautionKeywords) THEN ThreatLevel.DANGER
        ELSE IF includesAny(upperText, SafeKeywords) THEN ThreatLevel.SAFE
        ELSE "NONE"

\* the if / else-if chain of handleAgentPerception; "NONE": no branch taken
keywordLevel(text) ==
    LET upperText == toUpperCase(Chars(text))
    IN  IF includesAny(upperText, DangerKeywords) THEN ThreatLevel.DANGER
        ELSE IF includesAny(upperText, CautionKeywords) THEN ThreatLevel.CAUTION
        ELSE IF includesAny(upperText, SafeKeywords) THEN ThreatLevel.SAFE
        ELSE "NONE"

\* the chain, worked out once for every narration text of the model
Classification == [text \in AllTexts \cup FragmentTexts |-> keywordLevel(text)]

\* faulty variant of classify: a text without keyword counts as SAFE
classify_defaultSafe(text) ==
    IF Classification[text] = "NONE" THEN ThreatLevel.SAFE ELSE Classification[text]

classify(text) == Classification[text]

\* if (text.length > 5) addLog(text, "PERCEPTION")
MinLoggedLength == 5

\* faulty variant of perceptionLog: texts of five characters are logged too
perceptionLog_fromFive(prev, text) ==
    IF length(text) >= MinLoggedLength THEN addLog(prev, text, "PERCEPTION") ELSE prev

perceptionLog(prev, text) ==
    IF length(text) > MinLoggedLength THEN addLog(prev, text, "PERCEPTION") ELSE prev

----------------------------------------------------------------------------
(* Evidence store                                                          *)

MaxEvidence  == 8          \* if (prev.length >= 8) return prev
MinSpacingMs == 2000       \* ... < 2000

\* new Date().toLocaleTimeString(): the time of day, to the second, without
\* the date ("4:56:03 PM"); named by the second of the day
toLocaleTimeString(ms) == (ms \div 1000) % 86400

\* new Date(timeString).getTime(): a string holding a time of day alone is
\* no date-time string, so the Date is an Invalid Date whose time is NaN
DateParse(timeString) == NaN

\* a - b and a < b of JavaScript numbers: NaN propagates, and compares false
Minus(a, b)    == IF a = NaN \/ b = NaN THEN NaN ELSE a - b
LessThan(a, b) == a # NaN /\ b # NaN /\ a < b

\* faulty variant of evidenceUpdater: the capacity test is off by one
evidenceUpdater_offByOne(prev, newEvidence, dateNow) ==
    LET lastItem == IF Len(prev) > 0 THEN Some(prev[Len(prev)]) ELSE null
    IN  IF lastItem # null
           /\ LessThan(Minus(dateNow, DateParse(Get(lastItem).timestamp)), MinSpacingMs)
        THEN prev
        ELSE IF Len(prev) > MaxEvidence THEN prev
        ELSE Append(prev, newEvidence)

\* the updater handed to setEvidence by captureEvidence
evidenceUpdater(prev, newEvidence, dateNow) ==
    LET lastItem == IF Len(prev) > 0 THEN Some(prev[Len(prev)]) ELSE null
    IN  IF lastItem # null
           /\ LessThan(Minus(dateNow, DateParse(Get(lastItem).timestamp)), MinSpacingMs)
        THEN prev
        ELSE IF Len(prev) >= MaxEvidence THEN prev
        ELSE Append(prev, newEvidence)

\* captureEvidence: the evidence list and the log it leaves
captureEvidence(prevEvidence, prevLogs, cameraYields) ==
    LET frame == IF videoRefCurrent THEN captureFrame(cameraYields) ELSE null
        newEvidence == [timestamp |-> toLocaleTimeString(now),
                        image |-> Get(frame), type |-> "INTRUSION"]
    IN  IF frame # null
        THEN [evidence |-> evidenceUpdater(prevEvidence, newEvidence, now),
              logs |-> addLog(prevLogs, "EVIDENCE SECURED: Intrusion Snapshot Stored", "SYSTEM")]
        ELSE [evidence |-> prevEvidence, logs |-> prevLogs]

----------------------------------------------------------------------------
(* Initial state: App mounted, nothing started                             *)

Sessions == 1..MaxSessions

Init ==
    /\ patrolState = "IDLE"
    /\ threatLevel = ThreatLevel.SAFE
    /\ logs = <<>>
    /\ baselineData = null
    /\ baselineImage = null
    /\ sessionStartTime = 0
    /\ sessionStats = [threats |-> 0, deepScans |-> 0]
    /\ sessionDuration = [minutes |-> 0, seconds |-> 0]
    /\ evidence = <<>>
    /\ isVerifying = FALSE
    /\ authError = null
    /\ streamRef = null
    /\ sessionRef = null
    /\ videoIntervalRef = null
    /\ inputAudioContextRef = null
    /\ outputAudioContextRef = null
    /\ sessions = [s \in Sessions |-> "unused"]
    /\ audioContexts = [s \in Sessions |-> [input |-> "none", output |-> "none"]]
    /\ camStarts = 0
    /\ baselineTimers = 0
    /\ baselineScans = <<>>
    /\ authScan = null
    /\ manualScans = 0
    /\ timers = [s \in Sessions |-> "none"]
    /\ framesSent = 0
    /\ chunksSent = 0
    /\ nextStartTimeRef = 0
    /\ outputClock = [s \in Sessions |-> 0]
    /\ decoding = <<>>
    /\ scheduled = <<>>
    /\ apiKey \in BOOLEAN
    /\ now = StartClock
    /\ last = [op |-> "mount"]
    /\ cycle = 0

----------------------------------------------------------------------------
(* Rendering                                                               *)

\* history only: the walk along the patrol cycle
Canon == <<"IDLE", "BASELINE", "REVIEW", "ACTIVE", "AUTH", "SUMMARY", "IDLE">>

Tracked ==
    cycle' = IF patrolState' = patrolState THEN cycle
             ELSE IF cycle < Len(Canon) - 1 /\ patrolState = Canon[cycle + 1]
                     /\ patrolState' = Canon[cycle + 2] THEN cycle + 1
             ELSE IF patrolState = "IDLE" /\ patrolState' = "BASELINE" THEN 1
             ELSE 0

\* After a handler changed React state App renders again and the effect of
\* VideoFeed runs again.  To be the last conjunct of every handler.
Rerender ==
    camStarts' = IF reactVars' # reactVars THEN VideoFeedEffect(patrolState')
                 ELSE camStarts

\* the REVIEW overlay (with its two buttons) is rendered
ReviewShown == patrolState = "REVIEW" /\ baselineData # null /\ baselineImage # null

----------------------------------------------------------------------------
(* IDLE: the "Start Protocol" button                                       *)

startProtocol ==
    /\ patrolState = "IDLE"
    /\ patrolState' = "BASELINE"
    /\ last' = [op |-> "start"]
    /\ UNCHANGED <<threatLevel, logs, baselineData, baselineImage, sessionStartTime,
                   sessionStats, sessionDuration, evidence, isVerifying, authError>>
    /\ UNCHANGED <<refVars, connVars, baselineTimers, baselineScans, authScan,
                   manualScans, apiKey, now>>
    /\ UNCHANGED <<timers, streamVars>>
    /\ Rerender
    /\ Tracked

----------------------------------------------------------------------------
(* VideoFeed.startCamera settles; handleStreamReady                        *)

\* getUserMedia resolves: onStreamReady is called if the <video> element is
\* still there; handleStreamReady keeps the stream and, as it saw BASELINE,
\* arms the one second timer of captureBaseline
handleStreamReady ==
    /\ camStarts > 0
    /\ camStarts' = camStarts - 1
    /\ IF isActive(patrolState)
       THEN /\ streamRef' = Some("stream")
            /\ baselineTimers' = baselineTimers + 1
       ELSE UNCHANGED <<streamRef, baselineTimers>>
    /\ last' = [op |-> "streamReady", called |-> isActive(patrolState)]
    /\ UNCHANGED <<reactVars, sessionRef, videoIntervalRef, inputAudioContextRef,
                   outputAudioContextRef, connVars, baselineScans, authScan,
                   manualScans, apiKey, now, cycle>>
    /\ UNCHANGED <<timers, streamVars>>

\* getUserMedia rejects: an alert, nothing else
cameraDenied ==
    /\ camStarts > 0
    /\ camStarts' = camStarts - 1
    /\ last' = [op |-> "cameraDenied",
                alert |-> "Camera/Microphone access denied. Please check permissions."]
    /\ UNCHANGED <<reactVars, refVars, connVars, baselineTimers, baselineScans,
                   authScan, manualScans, apiKey, now, cycle>>
    /\ UNCHANGED <<timers, streamVars>>

----------------------------------------------------------------------------
(* captureBaseline                                                         *)

\* the timer fires: captureBaseline up to its await
captureBaseline(cameraYields) ==
    /\ baselineTimers > 0
    /\ baselineTimers' = baselineTimers - 1
    /\ IF ~videoRefCurrent
       THEN UNCHANGED <<logs, baselineScans>>
       ELSE /\ logs' = addLog(logs, "INITIATING BASELINE BIOMETRIC SCAN...", "SYSTEM")
            /\ LET frame == captureFrame(cameraYields)
               IN  baselineScans' = IF frame = null THEN baselineScans
                                    ELSE Append(baselineScans, Get(frame))
    /\ last' = [op |-> "captureBaseline", frame |-> captureFrame(cameraYields)]
    /\ UNCHANGED <<patrolState, threatLevel, baselineData, baselineImage,
                   sessionStartTime, sessionStats, sessionDuration, evidence,
                   isVerifying, authError>>
    /\ UNCHANGED <<refVars, connVars, authScan, manualScans, apiKey, now>>
    /\ UNCHANGED <<timers, streamVars>>
    /\ Rerender
    /\ Tracked

\* the i-th awaited performDeepScan(frame) settles: the rest of captureBaseline
captureBaselineSettles(i, reply) ==
    /\ i \in 1..Len(baselineScans)
    /\ LET frame == baselineScans[i]
           r == performDeepScan(reply)
       IN  /\ baselineScans' = SubSeq(baselineScans, 1, i - 1)
                                 \o SubSeq(baselineScans, i + 1, Len(baselineScans))
           /\ IF ~r.threw
              THEN /\ baselineData' = Some(r.value)
                   /\ baselineImage' = Some(frame)
                   /\ patrolState' = "REVIEW"
                   /\ logs' = addLog(logs, "BASELINE ESTABLISHED. AWAITING CONFIRMATION.", "SYSTEM")
                   /\ last' = [op |-> "baselineDone", ok |-> TRUE, reply |-> reply,
                               from |-> patrolState]
              ELSE /\ patrolState' = "IDLE"
                   /\ UNCHANGED <<baselineData, baselineImage, logs>>
                   /\ last' = [op |-> "baselineDone", ok |-> FALSE, reply |-> reply,
                               from |-> patrolState,
                               alert |-> "Failed to capture baseline. Please try again."]
    /\ UNCHANGED <<threatLevel, sessionStartTime, sessionStats, sessionDuration,
                   evidence, isVerifying, authError>>
    /\ UNCHANGED <<refVars, connVars, baselineTimers, authScan, manualScans, apiKey, now>>
    /\ UNCHANGED <<timers, streamVars>>
    /\ Rerender
    /\ Tracked

----------------------------------------------------------------------------
(* REVIEW: "Retake" and "Confirm Identity"                                 *)

retake ==
    /\ ReviewShown
    /\ patrolState' = "IDLE"
    /\ baselineData' = null
    /\ baselineImage' = null
    /\ last' = [op |-> "retake"]
    /\ UNCHANGED <<threatLevel, logs, sessionStartTime, sessionStats, sessionDuration,
                   evidence, isVerifying, authError>>
    /\ UNCHANGED <<refVars, connVars, baselineTimers, baselineScans, authScan,
                   manualScans, apiKey, now>>
    /\ UNCHANGED <<timers, streamVars>>
    /\ Rerender
    /\ Tracked

\* clearInterval(ref.current) behind `if (ref.current)`: the timer stops for
\* good; without a timer in the ref nothing is done
clearInterval_keeps(tm, ref) == tm

clearInterval(tm, ref) ==
    IF ref = null THEN tm
    ELSE [tm EXCEPT ![Get(ref)] = "cleared"]

\* the connection attempt a call of connectLiveAgent makes: the first unused
FreshSession == CHOOSE s \in Sessions : sessions[s] = "unused" /\ \A t \in 1..(s - 1) : sessions[t] # "unused"

\* connectLiveAgent up to its return.  failAt: the constructor that throws,
\* "input", "output", or "none".  ps: the patrol state set so far in this
\* handler.  The patrol state the handler leaves is given back.
connectLiveAgent(failAt, ps) ==
    LET s == FreshSession
    IN  IF ~apiKey
        THEN /\ UNCHANGED <<sessionRef, videoIntervalRef, inputAudioContextRef,
                            outputAudioContextRef, connVars, timers>>
             /\ patrolState' = ps
        ELSE IF failAt = "input"
        THEN /\ UNCHANGED <<sessionRef, videoIntervalRef, inputAudioContextRef,
                            outputAudioContextRef, audioContexts, timers>>
             /\ sessions' = [sessions EXCEPT ![s] = "aborted"]
             /\ patrolState' = "IDLE"
        ELSE IF failAt = "output"
        THEN /\ inputAudioContextRef' = Some(s)
             /\ audioContexts' = [audioContexts EXCEPT ![s].input = "running"]
             /\ sessions' = [sessions EXCEPT ![s] = "aborted"]
             /\ UNCHANGED <<sessionRef, videoIntervalRef, outputAudioContextRef, timers>>
             /\ patrolState' = "IDLE"
        ELSE /\ inputAudioContextRef' = Some(s)
             /\ outputAudioContextRef' = Some(s)
             /\ audioContexts' = [audioContexts EXCEPT ![s] = [input |-> "running", output |-> "running"]]
             /\ sessions' = [sessions EXCEPT ![s] = "connecting"]
             /\ timers' = [clearInterval(timers, videoIntervalRef) EXCEPT ![s] = "running"]
             /\ videoIntervalRef' = Some(s)
             /\ UNCHANGED sessionRef
             /\ patrolState' = ps

authorizeAndStart(failAt) ==
    /\ ReviewShown
    /\ \E s \in Sessions : sessions[s] = "unused"
    /\ IF streamRef = null
       THEN /\ UNCHANGED <<reactVars, refVars, connVars>>
            /\ last' = [op |-> "confirm", started |-> FALSE, failAt |-> failAt]
       ELSE /\ sessionStartTime' = now
            /\ sessionStats' = [threats |-> 0, deepScans |-> 0]
            /\ evidence' = <<>>
            /\ logs' = addLog(logs, "SYSTEM LOCKED. MONITORING ACTIVE.", "SYSTEM")
            /\ connectLiveAgent(failAt, "ACTIVE")
            /\ last' = [op |-> "confirm", started |-> TRUE, failAt |-> failAt]
            /\ UNCHANGED <<threatLevel, baselineData, baselineImage, sessionDuration,
                           isVerifying, authError, streamRef>>
    /\ UNCHANGED <<baselineTimers, baselineScans, authScan, manualScans, apiKey, now>>
    /\ UNCHANGED streamVars
    /\ Rerender
    /\ Tracked

----------------------------------------------------------------------------
(* The live session: callbacks of ai.live.connect                          *)

\* the connection is acknowledged: onopen runs, then the promise resolves
\* and its then-handler stores the session in sessionRef
sessionOpened(s) ==
    /\ sessions[s] = "connecting"
    /\ sessions' = [sessions EXCEPT ![s] = "open"]
    /\ logs' = addLog(logs, "LIVE SENTRY ACTIVE", "SYSTEM")
    /\ sessionRef' = Some(s)
    /\ last' = [op |-> "sessionOpened", session |-> s]
    /\ UNCHANGED <<patrolState, threatLevel, baselineData, baselineImage,
                   sessionStartTime, sessionStats, sessionDuration, evidence,
                   isVerifying, authError>>
    /\ UNCHANGED <<streamRef, videoIntervalRef, inputAudioContextRef,
                   outputAudioContextRef, audioContexts, baselineTimers,
                   baselineScans, authScan, manualScans, apiKey, now>>
    /\ UNCHANGED <<timers, streamVars>>
    /\ Rerender
    /\ Tracked

\* the connection attempt fails: the promise rejects, .catch sets IDLE
connectFailed(s) ==
    /\ sessions[s] = "connecting"
    /\ sessions' = [sessions EXCEPT ![s] = "failed"]
    /\ patrolState' = "IDLE"
    /\ last' = [op |-> "connectFailed", session |-> s, from |-> patrolState]
    /\ UNCHANGED <<threatLevel, logs, baselineData, baselineImage, sessionStartTime,
                   sessionStats, sessionDuration, evidence, isVerifying, authError>>
    /\ UNCHANGED <<refVars, audioContexts, baselineTimers, baselineScans, authScan,
                   manualScans, apiKey, now>>
    /\ UNCHANGED <<timers, streamVars>>
    /\ Rerender
    /\ Tracked

\* onerror: the transport of an open session breaks; the handler writes to
\* the console only.  The socket closes next (onclose).
sessionError(s) ==
    /\ sessions[s] = "open"
    /\ sessions' = [sessions EXCEPT ![s] = "errored"]
    /\ last' = [op |-> "sessionError", session |-> s]
    /\ UNCHANGED <<reactVars, refVars, audioContexts, asyncVars, apiKey, now>>
    /\ UNCHANGED <<timers, streamVars>>
    /\ Rerender
    /\ Tracked

\* faulty variant of sessionClosed: a session that was open when it closed
\* is replaced by a new connection attempt
sessionClosed_reconnects(s) ==
    /\ sessions[s] \in {"open", "errored", "closing"}
    /\ sessions' = IF sessions[s] # "closing" /\ (\E t \in Sessions : sessions[t] = "unused")
                   THEN [sessions EXCEPT ![s] = "closed", ![FreshSession] = "connecting"]
                   ELSE [sessions EXCEPT ![s] = "closed"]
    /\ logs' = addLog(logs, "Connection Closed", "SYSTEM")
    /\ last' = [op |-> "sessionClosed", session |-> s, was |-> sessions[s]]
    /\ UNCHANGED <<patrolState, threatLevel, baselineData, baselineImage,
                   sessionStartTime, sessionStats, sessionDuration, evidence,
                   isVerifying, authError>>
    /\ UNCHANGED <<refVars, audioContexts, baselineTimers, baselineScans, authScan,
                   manualScans, apiKey, now>>
    /\ UNCHANGED <<timers, streamVars>>
    /\ Rerender
    /\ Tracked

\* onclose: the remote end closed the session, the transport broke, or the
\* close() of lockSystem completed
sessionClosed(s) ==
    /\ sessions[s] \in {"open", "errored", "closing"}
    /\ sessions' = [sessions EXCEPT ![s] = "closed"]
    /\ logs' = addLog(logs, "Connection Closed", "SYSTEM")
    /\ last' = [op |-> "sessionClosed", session |-> s, was |-> sessions[s]]
    /\ UNCHANGED <<patrolState, threatLevel, baselineData, baselineImage,
                   sessionStartTime, sessionStats, sessionDuration, evidence,
                   isVerifying, authError>>
    /\ UNCHANGED <<refVars, audioContexts, baselineTimers, baselineScans, authScan,
                   manualScans, apiKey, now>>
    /\ UNCHANGED <<timers, streamVars>>
    /\ Rerender
    /\ Tracked

\* faulty variant of frameTick: no frame goes out while a manual scan is
\* awaited
frameTick_waitsForScan(s, cameraYields) ==
    LET frame == IF videoRefCurrent /\ sessionRef # null /\ manualScans = 0
                 THEN captureFrame(cameraYields) ELSE null
    IN  /\ timers[s] = "running"
        /\ framesSent' = IF frame # null THEN framesSent + 1 ELSE framesSent
        /\ last' = [op |-> "frameTick", timer |-> s, sent |-> frame # null]
        /\ UNCHANGED <<reactVars, refVars, connVars, asyncVars, timers, apiKey, now, cycle>>
        /\ UNCHANGED <<chunksSent, nextStartTimeRef, outputClock, decoding, scheduled>>

\* the callback of the frame timer of attempt s, every 500 ms while the
\* timer runs: a frame goes out if a session is referenced and the camera
\* gives a picture
frameTick(s, cameraYields) ==
    LET frame == IF videoRefCurrent /\ sessionRef # null
                 THEN captureFrame(cameraYields) ELSE null
    IN  /\ timers[s] = "running"
        /\ framesSent' = IF frame # null THEN framesSent + 1 ELSE framesSent
        /\ last' = [op |-> "frameTick", timer |-> s, sent |-> frame # null]
        /\ UNCHANGED <<reactVars, refVars, connVars, asyncVars, timers, apiKey, now, cycle>>
        /\ UNCHANGED <<chunksSent, nextStartTimeRef, outputClock, decoding, scheduled>>

\* processor.onaudioprocess, installed by onopen of session s: while the
\* input context of the connection is not closed the volume is stored
\* (App renders again) and the chunk is sent on the session
onaudioprocess(s) ==
    /\ sessions[s] \in {"open", "errored", "closing", "closed"}
    /\ audioContexts[s].input = "running"
    /\ chunksSent' = chunksSent + 1
    /\ camStarts' = VideoFeedEffect(patrolState)
    /\ last' = [op |-> "audioprocess", session |-> s]
    /\ UNCHANGED <<reactVars, refVars, connVars, baselineTimers, baselineScans,
                   authScan, manualScans, timers, apiKey, now, cycle>>
    /\ UNCHANGED <<framesSent, nextStartTimeRef, outputClock, decoding, scheduled>>

\* onmessage of session s with audio data in it, up to its await: the data
\* is given to decodeAudioData unless the output context of this connection
\* is closed.  samples: the number of 16-bit samples in the payload.
onmessageAudio(s, samples) ==
    /\ sessions[s] = "open"
    /\ decoding' = IF audioContexts[s].output # "closed"
                   THEN Append(decoding, [ctx |-> s, data |-> samples])
                   ELSE decoding
    /\ last' = [op |-> "audioMessage", session |-> s,
                accepted |-> audioContexts[s].output # "closed"]
    /\ UNCHANGED <<reactVars, refVars, connVars, asyncVars, timers, apiKey, now, cycle>>
    /\ UNCHANGED <<framesSent, chunksSent, nextStartTimeRef, outputClock, scheduled>>

SampleRate == 24000

\* decodeAudioData(decode(data), ctx, 24000): the buffer of the payload; its
\* duration in ms
decodeAudioData(samples, sampleRate) == [duration |-> (samples * 1000) \div sampleRate]

Max(a, b) == IF a >= b THEN a ELSE b

\* faulty variant of scheduleBuffer: every buffer starts at the current time
scheduleBuffer_atClock(currentTime, cursor, duration) ==
    [start |-> currentTime, next |-> currentTime + duration]

\* source.start(Math.max(currentTime, nextStartTimeRef.current)) and the
\* assignment to nextStartTimeRef.current that follows it; both statements
\* run in one task and read the same currentTime
scheduleBuffer(currentTime, cursor, duration) ==
    [start |-> Max(currentTime, cursor), next |-> Max(currentTime, cursor) + duration]

\* onmessage after its await: the i-th decode in flight completes, the
\* buffer is started on the output context of its connection
audioDecoded(i) ==
    /\ i \in 1..Len(decoding)
    /\ LET ctx == decoding[i].ctx
           audioBuffer == decodeAudioData(decoding[i].data, SampleRate)
           plan == scheduleBuffer(outputClock[ctx], nextStartTimeRef, audioBuffer.duration)
       IN  /\ scheduled' = Append(scheduled, [ctx |-> ctx, start |-> plan.start,
                                              duration |-> audioBuffer.duration])
           /\ nextStartTimeRef' = plan.next
           /\ last' = [op |-> "audioDecoded", ctx |-> ctx,
                       state |-> audioContexts[ctx].output]
    /\ decoding' = SubSeq(decoding, 1, i - 1) \o SubSeq(decoding, i + 1, Len(decoding))
    /\ UNCHANGED <<reactVars, refVars, connVars, asyncVars, timers, apiKey, now, cycle>>
    /\ UNCHANGED <<framesSent, chunksSent, outputClock>>

\* faulty variant of countThreat: the updater counts down
countThreat_countsDown(prev) == [prev EXCEPT !.threats = @ - 1]

\* prev => ({ ...prev, threats: prev.threats + 1 })
countThreat(prev) == [prev EXCEPT !.threats = @ + 1]

\* handleAgentPerception(text), called by onmessage of an open session for
\* msg.serverContent.outputTranscription.text
handleAgentPerception(s, text, cameraYields) ==
    /\ sessions[s] = "open"
    /\ LET level == classify(text)
           captured == captureEvidence(evidence, logs, cameraYields)
       IN  IF level = ThreatLevel.DANGER
           THEN /\ threatLevel' = ThreatLevel.DANGER
                /\ sessionStats' = countThreat(sessionStats)
                /\ evidence' = captured.evidence
                /\ logs' = perceptionLog(captured.logs, text)
                /\ last' = [op |-> "narration", text |-> text, alert |-> TRUE,
                            capture |-> TRUE, frame |-> captureFrame(cameraYields),
                            held |-> Len(evidence)]
           ELSE /\ threatLevel' = IF level = "NONE" THEN threatLevel ELSE level
                /\ logs' = perceptionLog(logs, text)
                /\ last' = [op |-> "narration", text |-> text, alert |-> FALSE,
                            capture |-> FALSE]
                /\ UNCHANGED <<sessionStats, evidence>>
    /\ UNCHANGED <<patrolState, baselineData, baselineImage, sessionStartTime,
                   sessionDuration, isVerifying, authError>>
    /\ UNCHANGED <<refVars, connVars, baselineTimers, baselineScans, authScan,
                   manualScans, apiKey, now>>
    /\ UNCHANGED <<timers, streamVars>>
    /\ Rerender
    /\ Tracked

\* a payload that is no encoding of 16-bit samples
Malformed == "malformed"

\* decode(audioData) followed by decodeAudioData: a payload that cannot be
\* decoded makes the call throw
decodeThrows(audioData) == audioData = Malformed

\* onmessage for a message that carries an audio payload that cannot be
\* decoded and a narration text.  With the output context closed the audio
\* branch is skipped and the text is handled; else the decode throws inside
\* the branch, onmessage has no try, and the statements after it do not run
onmessageMalformed(s, audioData, text, cameraYields) ==
    /\ decodeThrows(audioData)
    /\ IF audioContexts[s].output # "closed"
       THEN /\ sessions[s] = "open"
            /\ last' = [op |-> "malformedAudio", session |-> s, text |-> text]
            /\ UNCHANGED <<reactVars, refVars, connVars, asyncVars, timers, streamVars,
                           apiKey, now, cycle>>
       ELSE handleAgentPerception(s, text, cameraYields)

----------------------------------------------------------------------------
(* ACTIVE: "Verify Subject" (handleDeepScan) and the lock button           *)

\* faulty variant of ControlDeckShown: the buttons stay after the lock
ControlDeckShown_afterLock == patrolState \in {"ACTIVE", "AUTH"}

\* the Control Deck (Verify Subject and lock buttons) is rendered
ControlDeckShown == patrolState = "ACTIVE"

\* handleDeepScan up to its await; the button is disabled while ANALYZING
handleDeepScan(cameraYields) ==
    /\ ControlDeckShown
    /\ threatLevel # ThreatLevel.ANALYZING
    /\ IF ~videoRefCurrent
       THEN UNCHANGED <<threatLevel, sessionStats, logs, manualScans>>
       ELSE /\ threatLevel' = ThreatLevel.ANALYZING
            /\ sessionStats' = [sessionStats EXCEPT !.deepScans = @ + 1]
            /\ logs' = addLog(logs, "INITIATING MANUAL IDENTITY VERIFICATION...", "SYSTEM")
            /\ manualScans' = IF captureFrame(cameraYields) = null THEN manualScans
                              ELSE manualScans + 1
    /\ last' = [op |-> "deepScan", frame |-> captureFrame(cameraYields)]
    /\ UNCHANGED <<patrolState, baselineData, baselineImage, sessionStartTime,
                   sessionDuration, evidence, isVerifying, authError>>
    /\ UNCHANGED <<refVars, connVars, baselineTimers, baselineScans, authScan, apiKey, now>>
    /\ UNCHANGED <<timers, streamVars>>
    /\ Rerender
    /\ Tracked

\* an awaited performDeepScan(frame) of handleDeepScan settles
handleDeepScanSettles(reply, cameraYields) ==
    /\ manualScans > 0
    /\ manualScans' = manualScans - 1
    /\ LET r == performDeepScan(reply)
           logged == addLog(logs, r.value.analysis, "REASONING")
           captured == captureEvidence(evidence, logged, cameraYields)
       IN  IF r.threw
           THEN /\ UNCHANGED <<threatLevel, logs, evidence>>
                /\ last' = [op |-> "deepScanDone", threw |-> TRUE, reply |-> reply]
           ELSE /\ threatLevel' = r.value.threatLevel
                /\ IF r.value.threatLevel = ThreatLevel.DANGER
                   THEN /\ logs' = captured.logs
                        /\ evidence' = captured.evidence
                   ELSE /\ logs' = logged
                        /\ UNCHANGED evidence
                /\ last' = [op |-> "deepScanDone", threw |-> FALSE, reply |-> reply,
                            alert |-> (r.value.threatLevel = ThreatLevel.DANGER),
                            capture |-> (r.value.threatLevel = ThreatLevel.DANGER),
                            frame |-> captureFrame(cameraYields),
                            held |-> Len(evidence), from |-> patrolState]
    /\ UNCHANGED <<patrolState, baselineData, baselineImage, sessionStartTime,
                   sessionStats, sessionDuration, isVerifying, authError>>
    /\ UNCHANGED <<refVars, connVars, baselineTimers, baselineScans, authScan, apiKey, now>>
    /\ UNCHANGED <<timers, streamVars>>
    /\ Rerender
    /\ Tracked

\* `${minutes}:${seconds.toString().padStart(2, '0')}` of the elapsed time
durationOf(diff) ==
    [minutes |-> diff \div 60000, seconds |-> (diff % 60000) \div 1000]

closeContext(ctxs, ref, side) ==
    IF ref = null THEN ctxs
    ELSE [ctxs EXCEPT ![Get(ref)][side] = "closed"]

lockSystem ==
    /\ patrolState = "ACTIVE"
    /\ sessionDuration' = IF sessionStartTime > 0 THEN durationOf(now - sessionStartTime)
                          ELSE sessionDuration
    /\ logs' = addLog(logs, "SYSTEM LOCKED. AUTHENTICATION REQUIRED.", "SYSTEM")
    /\ timers' = clearInterval(timers, videoIntervalRef)
    /\ videoIntervalRef' = null
    /\ audioContexts' = closeContext(closeContext(audioContexts, inputAudioContextRef, "input"),
                                     outputAudioContextRef, "output")
    /\ IF sessionRef # null
       THEN /\ sessions' = [sessions EXCEPT ![Get(sessionRef)] =
                               IF @ = "open" THEN "closing" ELSE @]
            /\ sessionRef' = null
       ELSE UNCHANGED <<sessions, sessionRef>>
    /\ patrolState' = "AUTH"
    /\ threatLevel' = ThreatLevel.SAFE
    /\ last' = [op |-> "lock"]
    /\ UNCHANGED <<baselineData, baselineImage, sessionStartTime, sessionStats,
                   evidence, isVerifying, authError>>
    /\ UNCHANGED <<streamRef, inputAudioContextRef, outputAudioContextRef,
                   baselineTimers, baselineScans, authScan, manualScans, apiKey, now>>
    /\ UNCHANGED streamVars
    /\ Rerender
    /\ Tracked

----------------------------------------------------------------------------
(* AUTH: the unlock form (handleAuthSubmit)                                *)

\* what the user may type into the password field
Passwords == {"", "hunter2"}

\* faulty variant of passwordMissing: every credential passes
passwordMissing_never(password) == FALSE

\* !password || password.length < 1
passwordMissing(password) == length(password) < 1

\* handleAuthSubmit up to its await; the submit button is disabled while
\* isVerifying
handleAuthSubmit(password, cameraYields) ==
    /\ patrolState = "AUTH"
    /\ ~isVerifying
    /\ LET frame == captureFrame(cameraYields)
       IN  IF passwordMissing(password)
           THEN /\ authError' = Some("Password required.")
                /\ UNCHANGED <<isVerifying, authScan>>
           ELSE IF ~videoRefCurrent \/ baselineData = null
           THEN /\ authError' = Some("Camera error. Cannot verify biometrics.")
                /\ isVerifying' = FALSE
                /\ UNCHANGED authScan
           ELSE IF frame = null
           THEN /\ authError' = Some("Camera obstruction. Face verification failed.")
                /\ isVerifying' = FALSE
                /\ UNCHANGED authScan
           ELSE /\ authError' = null
                /\ isVerifying' = TRUE
                /\ authScan' = Some([frame |-> Get(frame),
                                     context |-> Get(baselineData).analysis])
    /\ last' = [op |-> "authSubmit", password |-> password,
                frame |-> captureFrame(cameraYields), called |-> authScan' # null]
    /\ UNCHANGED <<patrolState, threatLevel, logs, baselineData, baselineImage,
                   sessionStartTime, sessionStats, sessionDuration, evidence>>
    /\ UNCHANGED <<refVars, connVars, baselineTimers, baselineScans, manualScans,
                   apiKey, now>>
    /\ UNCHANGED <<timers, streamVars>>
    /\ Rerender
    /\ Tracked

\* the awaited performDeepScan(frame, baselineData.analysis) settles
handleAuthSubmitSettles(reply) ==
    /\ authScan # null
    /\ authScan' = null
    /\ LET r == performDeepScan(reply)
       IN  IF r.threw
           THEN /\ authError' = Some("Verification service unavailable.")
                /\ UNCHANGED patrolState
           ELSE IF r.value.threatLevel = ThreatLevel.SAFE
           THEN /\ patrolState' = "SUMMARY"
                /\ UNCHANGED authError
           ELSE /\ authError' = Some("Biometric Mismatch. Access Denied.")
                /\ UNCHANGED patrolState
    /\ isVerifying' = FALSE
    /\ last' = [op |-> "authDone", reply |-> reply, from |-> patrolState]
    /\ UNCHANGED <<threatLevel, logs, baselineData, baselineImage, sessionStartTime,
                   sessionStats, sessionDuration, evidence>>
    /\ UNCHANGED <<refVars, connVars, baselineTimers, baselineScans, manualScans,
                   apiKey, now>>
    /\ UNCHANGED <<timers, streamVars>>
    /\ Rerender
    /\ Tracked

----------------------------------------------------------------------------
(* SUMMARY: "Secure Delete" and "Archive Evidence"                         *)

\* faulty variant of resetSystem: the report stays open
resetSystem_staysOpen ==
    /\ patrolState' = "SUMMARY"
    /\ baselineData' = null
    /\ baselineImage' = null
    /\ logs' = <<>>
    /\ evidence' = <<>>

\* faulty variant of resetSystem: the evidence is kept
resetSystem_keepsEvidence ==
    /\ patrolState' = "IDLE"
    /\ baselineData' = null
    /\ baselineImage' = null
    /\ logs' = <<>>
    /\ evidence' = evidence

resetSystem ==
    /\ patrolState' = "IDLE"
    /\ baselineData' = null
    /\ baselineImage' = null
    /\ logs' = <<>>
    /\ evidence' = <<>>

\* confirmed: the answer to the confirm() dialog
discardAndClose(confirmed) ==
    /\ patrolState = "SUMMARY"
    /\ IF confirmed THEN resetSystem
       ELSE UNCHANGED <<patrolState, baselineData, baselineImage, logs, evidence>>
    /\ last' = [op |-> "discard", confirmed |-> confirmed,
                had |-> [logs |-> Len(logs), evidence |-> Len(evidence),
                         baseline |-> baselineData # null /\ baselineImage # null]]
    /\ UNCHANGED <<threatLevel, sessionStartTime, sessionStats, sessionDuration,
                   isVerifying, authError>>
    /\ UNCHANGED <<refVars, connVars, baselineTimers, baselineScans, authScan,
                   manualScans, apiKey, now>>
    /\ UNCHANGED <<timers, streamVars>>
    /\ Rerender
    /\ Tracked

saveAndClose ==
    /\ patrolState = "SUMMARY"
    /\ resetSystem
    /\ last' = [op |-> "archive",
                alert |-> "Evidence bundle encrypted and archived locally.",
                had |-> [logs |-> Len(logs), evidence |-> Len(evidence),
                         baseline |-> baselineData # null /\ baselineImage # null]]
    /\ UNCHANGED <<threatLevel, sessionStartTime, sessionStats, sessionDuration,
                   isVerifying, authError>>
    /\ UNCHANGED <<refVars, connVars, baselineTimers, baselineScans, authScan,
                   manualScans, apiKey, now>>
    /\ UNCHANGED <<timers, streamVars>>
    /\ Rerender
    /\ Tracked

----------------------------------------------------------------------------
(* Time passes                                                             *)

clockAdvances(d) ==
    /\ now' = now + d
    /\ last' = [op |-> "clock", by |-> d]
    /\ outputClock' = [s \in Sessions |->
                          IF audioContexts[s].output = "running"
                          THEN outputClock[s] + d ELSE outputClock[s]]
    /\ UNCHANGED <<reactVars, refVars, connVars, asyncVars, apiKey, cycle>>
    /\ UNCHANGED <<timers, framesSent, chunksSent, nextStartTimeRef, decoding, scheduled>>

----------------------------------------------------------------------------
(* Events.  b is the budget of a run: the handlers are cut off where a     *)
(* log, a counter or the number of calls in flight would pass it.          *)

Attempts == Cardinality({s \in Sessions : sessions[s] # "unused"})

Within(b) ==
    /\ Len(logs) <= b.logs
    /\ Attempts <= b.confirms
    /\ camStarts + baselineTimers + Len(baselineScans) <= b.pending
    /\ sessionStats.threats <= b.threats
    /\ sessionStats.deepScans <= b.manual
    /\ now <= StartClock + b.elapsed

FailPoints == {"none", "input", "output"}

StartProtocol(b) == startProtocol /\ Within(b)'

StreamReady(b) == handleStreamReady /\ Within(b)'

CameraDenied == cameraDenied

BaselineTimer(b, yields) == \E c \in yields : captureBaseline(c) /\ Within(b)'

BaselineSettles(b, replies) ==
    \E i \in 1..b.pending, reply \in replies :
        captureBaselineSettles(i, reply) /\ Within(b)'

Retake(b) == retake /\ Within(b)'

Confirm(b, fails) == \E failAt \in fails : authorizeAndStart(failAt) /\ Within(b)'

SessionOpened(b) == \E s \in Sessions : sessionOpened(s) /\ Within(b)'

ConnectFailed(b) == \E s \in Sessions : connectFailed(s) /\ Within(b)'

SessionError(b) == \E s \in Sessions : sessionError(s) /\ Within(b)'

SessionClosed(b) == \E s \in Sessions : sessionClosed(s) /\ Within(b)'

Narration(b, texts, yields) ==
    \E s \in Sessions, text \in texts, c \in yields :
        handleAgentPerception(s, text, c) /\ Within(b)'

DeepScan(b, yields) == \E c \in yields : handleDeepScan(c) /\ Within(b)'

DeepScanSettles(b, replies, yields) ==
    \E reply \in replies, c \in yields :
        handleDeepScanSettles(reply, c) /\ Within(b)'

Lock(b) == lockSystem /\ Within(b)'

AuthSubmit(b, yields) ==
    \E password \in Passwords, c \in yields :
        handleAuthSubmit(password, c) /\ Within(b)'

AuthSettles(b, replies) == \E reply \in replies : handleAuthSubmitSettles(reply) /\ Within(b)'

Discard == \E confirmed \in BOOLEAN : discardAndClose(confirmed)

Archive == saveAndClose

Payloads == {12000, 24000}

MicChunk(b) ==
    \E s \in Sessions : onaudioprocess(s) /\ Within(b)' /\ chunksSent' <= MaxMicChunks

FrameTick(b, yields) ==
    \E s \in Sessions, c \in yields :
        frameTick(s, c) /\ Within(b)' /\ framesSent' <= MaxFrames

FrameTicks(b, yields, frames) ==
    \E s \in Sessions, c \in yields :
        frameTick(s, c) /\ Within(b)' /\ framesSent' <= frames

AudioMessage(b) ==
    \E s \in Sessions, samples \in Payloads :
        /\ onmessageAudio(s, samples)
        /\ Within(b)'
        /\ Len(decoding') + Len(scheduled') <= MaxChunks

AudioDecoded(b) == \E i \in 1..MaxChunks : audioDecoded(i) /\ Within(b)'

MalformedMessage(b, texts) ==
    \E s \in Sessions, text \in texts :
        onmessageMalformed(s, Malformed, text, TRUE) /\ Within(b)'

\* the clock is watched from the moment the patrol is ACTIVE
Clock(b) == \E d \in Deltas : patrolState = "ACTIVE" /\ clockAdvances(d) /\ Within(b)'

----------------------------------------------------------------------------
(* Spec: the patrol protocol.  Every button, the camera, the baseline scan, *)
(* the connection and the unlock form, with every outcome of the camera,    *)
(* of the reasoning service and of the connection; no narration arrives.   *)

Budget == [logs |-> MaxLogs, confirms |-> MaxConfirms, pending |-> MaxPending,
           threats |-> 0, manual |-> 0, elapsed |-> 0]

Next ==
    \/ StartProtocol(Budget)
    \/ StreamReady(Budget)
    \/ CameraDenied
    \/ BaselineTimer(Budget, BOOLEAN)
    \/ BaselineSettles(Budget, ServiceReplies)
    \/ Retake(Budget)
    \/ Confirm(Budget, FailPoints)
    \/ SessionOpened(Budget)
    \/ ConnectFailed(Budget)
    \/ SessionError(Budget)
    \/ SessionClosed(Budget)
    \/ Lock(Budget)
    \/ AuthSubmit(Budget, BOOLEAN)
    \/ AuthSettles(Budget, ServiceReplies)
    \/ Discard
    \/ Archive

Spec == Init /\ [][Next]_vars

----------------------------------------------------------------------------
(* SpecStore: the evidence store.  One patrol whose camera and services    *)
(* work is brought to ACTIVE; then DANGER narrations arrive, manual scans  *)
(* are made and the clock advances.                                        *)

StoreBudget == [logs |-> MaxStoreLogs, confirms |-> MaxConfirms, pending |-> MaxPending,
                threats |-> MaxThreats, manual |-> MaxManual, elapsed |-> MaxElapsed]

Answers == {r \in ServiceReplies : r.kind = "json" /\ r.value.threatLevel \in {"SAFE", "DANGER"}}

StoreTexts == {"intruder"}

NextStore ==
    \/ StartProtocol(StoreBudget)
    \/ StreamReady(StoreBudget)
    \/ BaselineTimer(StoreBudget, {TRUE})
    \/ BaselineSettles(StoreBudget, Answers)
    \/ Confirm(StoreBudget, {"none"})
    \/ SessionOpened(StoreBudget)
    \/ Narration(StoreBudget, StoreTexts, {TRUE})
    \/ DeepScan(StoreBudget, {TRUE})
    \/ DeepScanSettles(StoreBudget, Answers, {TRUE})
    \/ Clock(StoreBudget)

SpecStore == Init /\ [][NextStore]_vars

----------------------------------------------------------------------------
(* SpecNarration: one patrol reaches ACTIVE and the session narrates, with *)
(* every text of AllTexts.                                                 *)

NarrationBudget == [logs |-> MaxNarrationLogs, confirms |-> MaxConfirms,
                    pending |-> MaxPending, threats |-> MaxNarrationLogs,
                    manual |-> 0, elapsed |-> 0]

NextNarration ==
    \/ StartProtocol(NarrationBudget)
    \/ StreamReady(NarrationBudget)
    \/ BaselineTimer(NarrationBudget, {TRUE})
    \/ BaselineSettles(NarrationBudget, Answers)
    \/ Confirm(NarrationBudget, {"none"})
    \/ SessionOpened(NarrationBudget)
    \/ Narration(NarrationBudget, AllTexts, BOOLEAN)

SpecNarration == Init /\ [][NextNarration]_vars

----------------------------------------------------------------------------
(* SpecReport: one patrol whose camera and services work, with a DANGER    *)
(* narration, locked, unlocked and closed by discard or archive.           *)

ReportBudget == [logs |-> MaxReportLogs, confirms |-> MaxConfirms,
                 pending |-> MaxPending, threats |-> MaxReportThreats,
                 manual |-> 0, elapsed |-> 0]

NextReport ==
    \/ StartProtocol(ReportBudget)
    \/ StreamReady(ReportBudget)
    \/ BaselineTimer(ReportBudget, {TRUE})
    \/ BaselineSettles(ReportBudget, Answers)
    \/ Confirm(ReportBudget, {"none"})
    \/ SessionOpened(ReportBudget)
    \/ Narration(ReportBudget, StoreTexts, {TRUE})
    \/ Lock(ReportBudget)
    \/ AuthSubmit(ReportBudget, BOOLEAN)
    \/ AuthSettles(ReportBudget, Answers)
    \/ Discard
    \/ Archive

SpecReport == Init /\ [][NextReport]_vars

----------------------------------------------------------------------------
(* SpecStream: the media streams of the live session.  Patrols whose       *)
(* camera and services work are confirmed and locked; the connection opens *)
(* or fails; frames go out, audio payloads come in and the clock advances. *)

StreamBudget == [logs |-> MaxStreamLogs, confirms |-> MaxStreamConfirms,
                 pending |-> MaxPending, threats |-> 0, manual |-> 0,
                 elapsed |-> MaxStreamElapsed]

NextStream ==
    \/ StartProtocol(StreamBudget)
    \/ StreamReady(StreamBudget)
    \/ BaselineTimer(StreamBudget, {TRUE})
    \/ BaselineSettles(StreamBudget, Answers)
    \/ Confirm(StreamBudget, {"none"})
    \/ SessionOpened(StreamBudget)
    \/ ConnectFailed(StreamBudget)
    \/ Lock(StreamBudget)
    \/ FrameTick(StreamBudget, BOOLEAN)
    \/ AudioMessage(StreamBudget)
    \/ AudioDecoded(StreamBudget)
    \/ Clock(StreamBudget)

SpecStream == Init /\ [][NextStream]_vars

----------------------------------------------------------------------------
(* SpecScan: manual scans next to the live session.  One patrol reaches    *)
(* ACTIVE; the operator verifies the subject, with every outcome of the    *)
(* camera and of the reasoning service, while narrations arrive and frames *)
(* and microphone chunks go out; then the patrol is locked.                *)

ScanBudget == [logs |-> MaxScanLogs, confirms |-> MaxConfirms, pending |-> MaxPending,
               threats |-> MaxScanThreats, manual |-> MaxScans, elapsed |-> 0]

ScanTexts == {"intruder", "safe"}

NextScan ==
    \/ StartProtocol(ScanBudget)
    \/ StreamReady(ScanBudget)
    \/ BaselineTimer(ScanBudget, {TRUE})
    \/ BaselineSettles(ScanBudget, Answers)
    \/ Confirm(ScanBudget, {"none"})
    \/ SessionOpened(ScanBudget)
    \/ Narration(ScanBudget, ScanTexts, {TRUE})
    \/ DeepScan(ScanBudget, BOOLEAN)
    \/ DeepScanSettles(ScanBudget, ServiceReplies, BOOLEAN)
    \/ FrameTick(ScanBudget, {TRUE})
    \/ MicChunk(ScanBudget)
    \/ Lock(ScanBudget)

SpecScan == Init /\ [][NextScan]_vars

----------------------------------------------------------------------------
(* SpecReopen: sessions that end.  Patrols whose camera and services work  *)
(* are confirmed; the connection fails, breaks or is closed by the remote  *)
(* end or by the lock; a baseline may be retaken and confirmed again.      *)

ReopenBudget == [logs |-> MaxReopenLogs, confirms |-> MaxReopenConfirms,
                 pending |-> MaxPending, threats |-> 0, manual |-> 0, elapsed |-> 0]

NextReopen ==
    \/ StartProtocol(ReopenBudget)
    \/ StreamReady(ReopenBudget)
    \/ BaselineTimer(ReopenBudget, {TRUE})
    \/ BaselineSettles(ReopenBudget, Answers)
    \/ Retake(ReopenBudget)
    \/ Confirm(ReopenBudget, {"none"})
    \/ SessionOpened(ReopenBudget)
    \/ ConnectFailed(ReopenBudget)
    \/ SessionError(ReopenBudget)
    \/ SessionClosed(ReopenBudget)
    \/ Lock(ReopenBudget)

SpecReopen == Init /\ [][NextReopen]_vars

----------------------------------------------------------------------------
(* SpecCounters: the session counters over whole patrols.  A patrol whose  *)
(* camera and services work counts a DANGER narration and a manual scan,   *)
(* is locked, unlocked and closed; a second patrol may be confirmed.       *)

CountersBudget == [logs |-> MaxCountersLogs, confirms |-> MaxCountersConfirms,
                   pending |-> MaxPending, threats |-> MaxCountersThreats,
                   manual |-> MaxCountersScans, elapsed |-> 0]

\* the reasoning service finds the subject of the baseline
Matches == {r \in Answers : r.value.threatLevel = "SAFE"}

NextCounters ==
    \/ StartProtocol(CountersBudget)
    \/ StreamReady(CountersBudget)
    \/ BaselineTimer(CountersBudget, {TRUE})
    \/ BaselineSettles(CountersBudget, Matches)
    \/ Confirm(CountersBudget, {"none"})
    \/ SessionOpened(CountersBudget)
    \/ Narration(CountersBudget, StoreTexts, {TRUE})
    \/ DeepScan(CountersBudget, {TRUE})
    \/ DeepScanSettles(CountersBudget, Matches, {TRUE})
    \/ Lock(CountersBudget)
    \/ AuthSubmit(CountersBudget, {TRUE})
    \/ AuthSettles(CountersBudget, Matches)
    \/ Discard
    \/ Archive

SpecCounters == Init /\ [][NextCounters]_vars

----------------------------------------------------------------------------
(* SpecFragments: short and long narration texts.  One patrol reaches      *)
(* ACTIVE and the session narrates fragments of 3, 4, 5, 6 and 8           *)
(* characters, with and without keywords, the camera yielding a frame or   *)
(* not.                                                                    *)

FragmentBudget == [logs |-> MaxFragmentLogs, confirms |-> MaxConfirms,
                   pending |-> MaxPending, threats |-> MaxFragmentLogs,
                   manual |-> 0, elapsed |-> 0]

NextFragments ==
    \/ StartProtocol(FragmentBudget)
    \/ StreamReady(FragmentBudget)
    \/ BaselineTimer(FragmentBudget, {TRUE})
    \/ BaselineSettles(FragmentBudget, Matches)
    \/ Confirm(FragmentBudget, {"none"})
    \/ SessionOpened(FragmentBudget)
    \/ Narration(FragmentBudget, FragmentTexts, BOOLEAN)

SpecFragments == Init /\ [][NextFragments]_vars

----------------------------------------------------------------------------
(* SpecMalformed: inbound messages with a payload that cannot be decoded.  *)
(* One patrol reaches ACTIVE; the session delivers narrations, audio       *)
(* payloads and messages whose audio payload is malformed; then the patrol *)
(* is locked.                                                              *)

MalformedBudget == [logs |-> MaxMalformedLogs, confirms |-> MaxConfirms,
                    pending |-> MaxPending, threats |-> MaxMalformedThreats,
                    manual |-> 0, elapsed |-> 0]

NextMalformed ==
    \/ StartProtocol(MalformedBudget)
    \/ StreamReady(MalformedBudget)
    \/ BaselineTimer(MalformedBudget, {TRUE})
    \/ BaselineSettles(MalformedBudget, Matches)
    \/ Confirm(MalformedBudget, {"none"})
    \/ SessionOpened(MalformedBudget)
    \/ Narration(MalformedBudget, ScanTexts, {TRUE})
    \/ MalformedMessage(MalformedBudget, ScanTexts)
    \/ AudioMessage(MalformedBudget)
    \/ AudioDecoded(MalformedBudget)
    \/ Lock(MalformedBudget)

SpecMalformed == Init /\ [][NextMalformed]_vars

----------------------------------------------------------------------------
(* SpecTicks: the frame timer and the microphone next to sessions that     *)
(* end.  Patrols whose services work are confirmed; the session opens,     *)
(* breaks or is closed by the remote end or by the lock, while the frame   *)
(* timer ticks, with the camera yielding a frame or not, and the           *)
(* microphone delivers chunks; a second patrol may be confirmed.           *)

TickBudget == [logs |-> MaxTickLogs, confirms |-> MaxTickConfirms,
               pending |-> MaxPending, threats |-> 0, manual |-> 0, elapsed |-> 0]

NextTicks ==
    \/ StartProtocol(TickBudget)
    \/ StreamReady(TickBudget)
    \/ BaselineTimer(TickBudget, {TRUE})
    \/ BaselineSettles(TickBudget, Matches)
    \/ Confirm(TickBudget, {"none"})
    \/ SessionOpened(TickBudget)
    \/ SessionError(TickBudget)
    \/ SessionClosed(TickBudget)
    \/ Lock(TickBudget)
    \/ FrameTicks(TickBudget, BOOLEAN, MaxTicks)
    \/ MicChunk(TickBudget)

SpecTicks == Init /\ [][NextTicks]_vars

----------------------------------------------------------------------------
(* SpecReplay: inbound audio over two patrols.  A patrol whose camera and  *)
(* services work receives audio payloads, is locked, unlocked and          *)
(* archived; a second patrol is confirmed and receives audio again.        *)

ReplayBudget == [logs |-> MaxReplayLogs, confirms |-> MaxReplayConfirms,
                 pending |-> MaxPending, threats |-> 0, manual |-> 0, elapsed |-> 0]

NextReplay ==
    \/ StartProtocol(ReplayBudget)
    \/ StreamReady(ReplayBudget)
    \/ BaselineTimer(ReplayBudget, {TRUE})
    \/ BaselineSettles(ReplayBudget, Matches)
    \/ Confirm(ReplayBudget, {"none"})
    \/ SessionOpened(ReplayBudget)
    \/ AudioMessage(ReplayBudget)
    \/ AudioDecoded(ReplayBudget)
    \/ Lock(ReplayBudget)
    \/ AuthSubmit(ReplayBudget, {TRUE})
    \/ AuthSettles(ReplayBudget, Matches)
    \/ Archive

SpecReplay == Init /\ [][NextReplay]_vars

----------------------------------------------------------------------------
(* Properties                                                              *)

\* the awaited scan of the unlock form settled with a classification of SAFE
MatchedSafe(rec) == rec.reply.kind = "json" /\ rec.reply.value.threatLevel = "SAFE"

\* C1: when the reasoning service fails (error or timeout, empty response,
\* unparsable response) during the comparison issued by an unlock submission,
\* the submission is denied: the patrol state is the one before, and it is
\* not SUMMARY.
C1_FailedScanDeniesAuth ==
    (last.op = "authDone" /\ last.reply.kind \in {"error", "empty", "unparsable"})
        => (patrolState = last.from /\ patrolState # "SUMMARY")

\* C2: an unlock submission reaches SUMMARY only when its comparison was
\* classified SAFE by the service; every other outcome of a submission (other
\* classification, service error, no camera, no frame, no baseline) leaves
\* the state out of SUMMARY with an auth error set.
C2_SummaryOnlyOnSafeMatch ==
    /\ (last.op = "authDone" /\ ~MatchedSafe(last))
          => (patrolState # "SUMMARY" /\ authError # null)
    /\ (last.op = "authSubmit" /\ ~last.called)
          => (patrolState = "AUTH" /\ authError # null)

\* C3: an unlock submission with an empty credential issues no deep scan,
\* leaves the state at AUTH and sets an auth error.
C3_EmptyCredentialDenied ==
    (last.op = "authSubmit" /\ last.password = "")
        => /\ patrolState = "AUTH"
           /\ authError = Some("Password required.")
           /\ ~last.called
           /\ authScan = null

\* C3 happens: an empty credential was submitted while the camera gave a
\* frame and a baseline was stored, so that a comparison could have been made
C3_EmptySubmitted ==
    /\ last.op = "authSubmit"
    /\ last.password = ""
    /\ last.frame # null
    /\ baselineData # null

\* C4: the evidence list never holds more than 8 items.
C4_EvidenceCapped == Len(evidence) <= MaxEvidence

\* C4 happens: the eighth DANGER narration made a capture attempt, with a
\* frame, on a list that held 8 items already: seven of the narrations before
\* and a manual scan
C4_AttemptAtCapacity ==
    /\ last.op = "narration"
    /\ last.capture
    /\ last.frame # null
    /\ last.held = MaxEvidence
    /\ Len(evidence) = MaxEvidence
    /\ sessionStats.threats = MaxEvidence
    /\ sessionStats.deepScans > 0

\* C5: an attempt made less than 2000 ms after the capture of the last
\* stored item stores nothing: any two successive items of the evidence list
\* were captured at least 2000 ms apart.
C5_StoredItemsSpaced ==
    \A i \in 1..(Len(evidence) - 1) :
        evidence[i + 1].image - evidence[i].image >= MinSpacingMs

\* the EVIDENCE SECURED entries of a log
Secured(l) ==
    Cardinality({i \in DOMAIN l : l[i].message = "EVIDENCE SECURED: Intrusion Snapshot Stored"})

\* C6: a step that stores no evidence item appends no EVIDENCE SECURED log
\* entry (a rejected capture has no effect), and a step that stores one
\* appends an INTRUSION item and one EVIDENCE SECURED entry.
C6_RejectedCaptureSilent ==
    [][/\ evidence' = evidence => Secured(logs') <= Secured(logs)
       /\ Len(evidence') = Len(evidence) + 1
             => /\ evidence'[Len(evidence')].type = "INTRUSION"
                /\ Secured(logs') = Secured(logs) + 1]_vars

\* the keywords as the specification lists them
DangerWords  == {<<"d", "a", "n", "g", "e", "r">>,
                 <<"u", "n", "a", "u", "t", "h", "o", "r", "i", "z", "e", "d">>,
                 <<"i", "n", "t", "r", "u", "d", "e", "r">>,
                 <<"a", "c", "c", "e", "s", "s", " ", "a", "t", "t", "e", "m", "p", "t">>}
CautionWords == {<<"w", "a", "r", "n", "i", "n", "g">>,
                 <<"c", "a", "u", "t", "i", "o", "n">>,
                 <<"u", "n", "k", "n", "o", "w", "n">>}
SafeWords    == {<<"s", "a", "f", "e">>,
                 <<"v", "e", "r", "i", "f", "i", "e", "d">>,
                 <<"s", "e", "c", "u", "r", "e">>,
                 <<"a", "u", "t", "h", "o", "r", "i", "z", "e", "d">>}

\* two characters are the same letter, whatever their case
SameLetter(a, b) ==
    \/ a = b
    \/ a \in DOMAIN UpperOf /\ UpperOf[a] = b
    \/ b \in DOMAIN UpperOf /\ UpperOf[b] = a

\* some word of words occurs in text, whatever the case of the letters
Mentions(text, words) ==
    LET t == Chars(text)
    IN  \E w \in words : \E i \in 1..(Len(t) - Len(w) + 1) :
            \A j \in 1..Len(w) : SameLetter(t[i + j - 1], w[j])

\* C7: after a narration the threat level is DANGER if the text mentions a
\* DANGER keyword; else CAUTION if it mentions a CAUTION keyword; else SAFE
\* if it mentions a SAFE keyword, whatever the case of the letters.
C7_ClassificationPriority ==
    last.op = "narration" =>
        /\ IF Mentions(last.text, DangerWords) THEN threatLevel = "DANGER"
           ELSE IF Mentions(last.text, CautionWords) THEN threatLevel = "CAUTION"
           ELSE IF Mentions(last.text, SafeWords) THEN threatLevel = "SAFE"
           ELSE TRUE
        /\ last.text = "ALERT: Unauthorized Biometric Detected" => threatLevel = "DANGER"
        /\ last.text = "Status: Secure. Terminal Vacant." => threatLevel = "SAFE"

\* C7 happens: a text with a DANGER and a SAFE keyword was narrated while
\* the level was not DANGER before (no threat had been counted)
C7_MixedTextNarrated ==
    /\ last.op = "narration"
    /\ Mentions(last.text, DangerWords)
    /\ Mentions(last.text, SafeWords)
    /\ sessionStats.threats = 1

NoKeyword(text) ==
    ~Mentions(text, DangerWords) /\ ~Mentions(text, CautionWords) /\ ~Mentions(text, SafeWords)

\* C8: a narration whose text mentions no keyword leaves the threat level,
\* the session counters and the evidence list as they were.
C8_NoKeywordNoChange ==
    [][(last'.op = "narration" /\ NoKeyword(last'.text))
          => /\ threatLevel' = threatLevel
             /\ sessionStats' = sessionStats
             /\ evidence' = evidence]_vars

\* C8 happens: a text without keyword was narrated after a DANGER narration
\* had raised the level and stored evidence, and the level is still DANGER
C8_LevelRetained ==
    /\ last.op = "narration"
    /\ NoKeyword(last.text)
    /\ threatLevel = "DANGER"
    /\ sessionStats.threats > 0
    /\ Len(evidence) > 0

\* C9: each step of the patrol cycle takes the patrol state to the next
\* state of IDLE, BASELINE, REVIEW, ACTIVE, AUTH, SUMMARY, IDLE: start, a
\* baseline scan that returned, confirm with the connection started, lock,
\* an unlock whose comparison was classified SAFE, archive or confirmed
\* discard.
C9_CycleStepsAdvance ==
    [][/\ last'.op = "start"
             => (patrolState = "IDLE" /\ patrolState' = "BASELINE")
       /\ (last'.op = "baselineDone" /\ last'.ok /\ patrolState = "BASELINE")
             => patrolState' = "REVIEW"
       /\ (last'.op = "confirm" /\ last'.started /\ last'.failAt = "none")
             => (patrolState = "REVIEW" /\ patrolState' = "ACTIVE")
       /\ last'.op = "lock"
             => (patrolState = "ACTIVE" /\ patrolState' = "AUTH")
       /\ (last'.op = "authDone" /\ MatchedSafe(last') /\ apiKey /\ patrolState = "AUTH")
             => patrolState' = "SUMMARY"
       /\ (last'.op = "archive" \/ (last'.op = "discard" /\ last'.confirmed))
             => (patrolState = "SUMMARY" /\ patrolState' = "IDLE")]_vars

\* C9 happens: the patrol state went from IDLE through BASELINE, REVIEW,
\* ACTIVE, AUTH and SUMMARY, in this order and through no other state, and
\* is back at IDLE
C9_FullCycle ==
    /\ cycle = Len(Canon) - 1
    /\ patrolState = "IDLE"
    /\ last.op \in {"discard", "archive"}

\* C10: after archive, or discard once confirmed, the patrol state is IDLE,
\* baseline data and baseline image are none, and the log and the evidence
\* list are empty.
C10_ResetClears ==
    (last.op = "archive" \/ (last.op = "discard" /\ last.confirmed))
        => /\ patrolState = "IDLE"
           /\ baselineData = null
           /\ baselineImage = null
           /\ logs = <<>>
           /\ evidence = <<>>

\* C10 happens: the report was closed while a baseline, log entries and
\* evidence were held
C10_ReportClosed ==
    /\ last.op \in {"archive", "discard"}
    /\ patrolState = "IDLE"
    /\ last.had.baseline
    /\ last.had.logs > 0
    /\ last.had.evidence > 0

\* C11: a baseline profile is stored exactly while the patrol state is
\* REVIEW, ACTIVE, AUTH or SUMMARY; none is stored in IDLE or BASELINE.
C11_BaselineIffState ==
    (baselineData # null) <=> (patrolState \in {"REVIEW", "ACTIVE", "AUTH", "SUMMARY"})

\* the results performDeepScan may give back for the calls in flight
ScanInFlight == Len(baselineScans) > 0 \/ authScan # null \/ manualScans > 0

\* C17: whatever the reasoning service does and whatever the configuration,
\* a performDeepScan call in flight does not throw, and on a failure of the
\* service (error or timeout, empty response, unparsable response) it gives
\* back the fail-safe result: threat level SAFE, confidence 0.
C17_NeverThrows ==
    ScanInFlight =>
        \A reply \in ServiceReplies :
            /\ ~performDeepScan(reply).threw
            /\ reply.kind # "json" =>
                  /\ performDeepScan(reply).value.threatLevel = "SAFE"
                  /\ performDeepScan(reply).value.confidence = 0

\* C18: the threat level of every result performDeepScan gave back is SAFE,
\* CAUTION or DANGER: of the stored baseline, and of the level a manual scan
\* set.
C18_LevelValidated ==
    /\ baselineData # null => Get(baselineData).threatLevel \in {"SAFE", "CAUTION", "DANGER"}
    /\ threatLevel \in {"SAFE", "CAUTION", "DANGER", "ANALYZING"}

\* C19: after a baseline scan whose service call failed (error or timeout,
\* empty or unparsable response) the patrol state is IDLE, an error is shown
\* and no baseline is stored.
C19_FailedBaselineToIdle ==
    (last.op = "baselineDone" /\ last.reply.kind \in {"error", "empty", "unparsable"})
        => /\ patrolState = "IDLE"
           /\ ~last.ok
           /\ baselineData = null
           /\ baselineImage = null

\* the transitions of the patrol state the specification lists
Transitions ==
    {<<"IDLE", "BASELINE">>, <<"BASELINE", "REVIEW">>, <<"BASELINE", "IDLE">>,
     <<"REVIEW", "IDLE">>, <<"REVIEW", "BASELINE">>, <<"REVIEW", "ACTIVE">>,
     <<"ACTIVE", "AUTH">>, <<"AUTH", "SUMMARY">>, <<"SUMMARY", "IDLE">>,
     <<"ACTIVE", "IDLE">>}

\* C20: every change of the patrol state is one of the listed transitions;
\* REVIEW is entered from BASELINE only.
C20_ListedTransitionsOnly ==
    [][patrolState' # patrolState => <<patrolState, patrolState'>> \in Transitions]_vars

\* the connection attempts whose session is being opened or is open
Live == {s \in Sessions : sessions[s] \in {"connecting", "open"}}

\* C12: at most one session is connecting or open at any time; once the
\* patrol is locked (AUTH, and SUMMARY after it) no session is open and none
\* is referenced, also when the lock came while the connection was pending.
C12_OneLiveSession ==
    /\ Cardinality(Live) <= 1
    /\ patrolState \in {"AUTH", "SUMMARY"} =>
          /\ sessionRef = null
          /\ \A s \in Sessions : sessions[s] # "open"

\* the teardown is complete for connection attempt s: its frame timer does
\* not run, its audio contexts are closed (or were never made), and it is
\* not referenced
TornDown(s) ==
    /\ timers[s] # "running"
    /\ videoIntervalRef # Some(s)
    /\ audioContexts[s].input \in {"none", "closed"}
    /\ audioContexts[s].output \in {"none", "closed"}
    /\ sessionRef # Some(s)

\* C13: whichever way a streaming session ended (lock, remote close,
\* transport error, failure to open) the same teardown has run: frame timer
\* cancelled, both audio contexts closed, session reference released.
C13_TeardownOnEveryExit ==
    \A s \in Sessions :
        sessions[s] \in {"closing", "closed", "errored", "failed", "aborted"} => TornDown(s)

\* where the buffer scheduled last ends; 0 before the first buffer
PreviousEnd ==
    IF scheduled = <<>> THEN 0
    ELSE scheduled[Len(scheduled)].start + scheduled[Len(scheduled)].duration

C15_LateBufferDropped ==
    [][ (/\ Len(decoding') < Len(decoding)
         /\ last'.op = "audioDecoded"
         /\ audioContexts[last'.ctx].output = "closed")
        => /\ scheduled' = scheduled
           /\ nextStartTimeRef' = nextStartTimeRef ]_vars

\* C16: no frame is sent while no frame timer is referenced; the lock
\* leaves no timer referenced and none running, so none runs until the next
\* connectLiveAgent starts one; cancelling once more changes nothing.
C16_SamplerStopFinal ==
    [][ /\ videoIntervalRef = null => framesSent' = framesSent
        /\ (patrolState = "ACTIVE" /\ patrolState' = "AUTH") =>
              /\ videoIntervalRef' = null
              /\ \A s \in Sessions : timers'[s] # "running"
        /\ \A s \in Sessions : timers[s] = "cleared" => timers'[s] = "cleared"
        /\ clearInterval(clearInterval(timers, videoIntervalRef), videoIntervalRef)
              = clearInterval(timers, videoIntervalRef)
        /\ clearInterval(timers', null) = timers' ]_vars

\* frames were sent, then the patrol was locked: the timer is cancelled
C16_LockedAfterFrames ==
    /\ framesSent > 0
    /\ patrolState = "AUTH"
    /\ last.op = "lock"
    /\ videoIntervalRef = null
    /\ \E s \in Sessions : timers[s] = "cleared"

\* C23: a confirm in REVIEW whose connection set-up does not fail sets the
\* patrol state to ACTIVE, both session counters to zero, empties the
\* evidence list and starts the connection of exactly one session; and
\* whenever the patrol state is ACTIVE a session is connecting or open.
C23_ConfirmOpensSession ==
    [][ /\ (last'.op = "confirm" /\ last'.failAt = "none" /\ patrolState = "REVIEW") =>
              /\ patrolState' = "ACTIVE"
              /\ sessionStats' = [threats |-> 0, deepScans |-> 0]
              /\ evidence' = <<>>
              /\ Cardinality({s \in Sessions : sessions[s] = "unused"
                                                /\ sessions'[s] = "connecting"}) = 1
              /\ \A s \in Sessions : sessions[s] # "unused" => sessions'[s] = sessions[s]
        /\ patrolState' = "ACTIVE" => \E s \in Sessions : sessions'[s] \in {"connecting", "open"} ]_vars

\* C24: when the transport of the session breaks (onerror) or the remote end
\* closes the session (onclose of a session that lockSystem did not close)
\* while the patrol state is ACTIVE, the patrol state leaves ACTIVE.
C24_LostSessionLeavesActive ==
    [][ (/\ patrolState = "ACTIVE"
         /\ \E s \in Sessions : /\ sessions[s] \in {"open", "errored"}
                                /\ sessions'[s] \in {"errored", "closed"}
                                /\ sessions'[s] # sessions[s])
        => patrolState' # "ACTIVE" ]_vars

\* C26: in BASELINE the state machine does not hang: a camera start, a
\* baseline timer or a baseline scan is in flight, whose completion leads on
\* to REVIEW or IDLE.
C26_BaselineNeverHangs ==
    patrolState = "BASELINE" => camStarts + baselineTimers + Len(baselineScans) > 0

\* C27: retake in REVIEW sets baseline data and baseline image to none and
\* the patrol state to BASELINE.
C27_RetakeToBaseline ==
    [][ (last'.op = "retake" /\ patrolState = "REVIEW") =>
            /\ baselineData' = null
            /\ baselineImage' = null
            /\ patrolState' = "BASELINE" ]_vars

\* C29: from the confirmation of a baseline to the reset that leaves
\* SUMMARY, baseline data and baseline image do not change.
C29_BaselineImmutable ==
    [][ (/\ patrolState \in {"ACTIVE", "AUTH", "SUMMARY"}
         /\ ~(patrolState = "SUMMARY" /\ patrolState' = "IDLE"))
        => UNCHANGED <<baselineData, baselineImage>> ]_vars

\* C22: a narration whose text mentions a DANGER keyword adds exactly one to
\* the threat counter, sounds the alert and makes one capture attempt (with
\* a frame: one EVIDENCE SECURED entry, at most one item more); a narration
\* classified CAUTION or SAFE sets the threat level and leaves the threat
\* counter, the manual-scan counter and the evidence list as they were.
C22_DangerCountsOthersDisplay ==
    [][ last'.op = "narration" =>
          IF Mentions(last'.text, DangerWords)
          THEN /\ sessionStats'.threats = sessionStats.threats + 1
               /\ sessionStats'.deepScans = sessionStats.deepScans
               /\ last'.alert
               /\ last'.capture
               /\ Len(evidence') \in {Len(evidence), Len(evidence) + 1}
               /\ Secured(logs') = Secured(logs) + (IF last'.frame # null THEN 1 ELSE 0)
          ELSE IF Mentions(last'.text, CautionWords) \/ Mentions(last'.text, SafeWords)
          THEN /\ threatLevel' = (IF Mentions(last'.text, CautionWords) THEN "CAUTION" ELSE "SAFE")
               /\ sessionStats' = sessionStats
               /\ evidence' = evidence
               /\ ~last'.alert
               /\ ~last'.capture
               /\ Secured(logs') = Secured(logs)
          ELSE TRUE ]_vars

\* C22 happens: a DANGER narration was counted and its capture stored an
\* item
C22_DangerNarrationCounted ==
    /\ last.op = "narration"
    /\ Mentions(last.text, DangerWords)
    /\ last.frame # null
    /\ threatLevel = "DANGER"
    /\ sessionStats = [threats |-> 1, deepScans |-> 0]
    /\ Len(evidence) = 1
    /\ Secured(logs) = 1

\* C21: the manual-scan counter grows only in ACTIVE; a manual scan
\* initiation adds exactly one to it, leaves the threat counter and the
\* patrol state; the completion of the scan leaves the patrol state and
\* both counters, whatever the result; a DANGER result sounds the alert and
\* makes one capture attempt, any other result leaves the evidence list.
C21_ManualScanInActive ==
    [][ /\ sessionStats'.deepScans > sessionStats.deepScans => patrolState = "ACTIVE"
        /\ last'.op = "deepScan" =>
              /\ patrolState = "ACTIVE" /\ patrolState' = "ACTIVE"
              /\ sessionStats'.deepScans = sessionStats.deepScans + 1
              /\ sessionStats'.threats = sessionStats.threats
        /\ last'.op = "deepScanDone" =>
              /\ patrolState' = patrolState
              /\ sessionStats' = sessionStats
              /\ ~last'.threw
              /\ IF threatLevel' = "DANGER"
                 THEN /\ last'.alert
                      /\ last'.capture
                      /\ Len(evidence') \in {Len(evidence), Len(evidence) + 1}
                      /\ Secured(logs') = Secured(logs) + (IF last'.frame # null THEN 1 ELSE 0)
                 ELSE /\ ~last'.alert
                      /\ evidence' = evidence
                      /\ Secured(logs') = Secured(logs)
              /\ last'.reply.kind # "json" => threatLevel' = "SAFE" ]_vars

\* C21 happens: a manual scan made in ACTIVE came back DANGER and its
\* capture stored an item; no narration had counted a threat
C21_DangerScanCaptured ==
    /\ last.op = "deepScanDone"
    /\ last.from = "ACTIVE"
    /\ patrolState = "ACTIVE"
    /\ threatLevel = "DANGER"
    /\ sessionStats = [threats |-> 0, deepScans |-> 1]
    /\ Len(evidence) = 1

\* C28: the threat level is ANALYZING only while a performDeepScan call of
\* handleDeepScan is awaited.
C28_AnalyzingOnlyInFlight ==
    threatLevel = "ANALYZING" => manualScans > 0

\* C30: while a manual scan is awaited, for every open session a DANGER
\* narration is classified and applied (level, threat counter, capture), a
\* SAFE narration sets the level, the running frame timer sends a frame on
\* the referenced session and the microphone processor sends a chunk.
C30_MonitoringNotPaused ==
    manualScans > 0 =>
        \A s \in Sessions :
            /\ sessions[s] = "open" =>
                  /\ ENABLED (/\ handleAgentPerception(s, "intruder", TRUE)
                              /\ threatLevel' = "DANGER"
                              /\ sessionStats'.threats = sessionStats.threats + 1
                              /\ Secured(logs') = Secured(logs) + 1)
                  /\ ENABLED (/\ handleAgentPerception(s, "safe", TRUE)
                              /\ threatLevel' = "SAFE")
            /\ (sessions[s] = "open" /\ audioContexts[s].input = "running") =>
                  ENABLED (onaudioprocess(s) /\ chunksSent' = chunksSent + 1)
            /\ (timers[s] = "running" /\ sessionRef # null /\ isActive(patrolState)) =>
                  ENABLED (frameTick(s, TRUE) /\ framesSent' = framesSent + 1)

\* C30 happens: with a manual scan awaited, a DANGER narration was applied
\* over the ANALYZING level, and a frame and a microphone chunk went out
C30_NarratedDuringScan ==
    /\ manualScans > 0
    /\ last.op = "narration"
    /\ threatLevel = "DANGER"
    /\ sessionStats = [threats |-> 1, deepScans |-> 1]
    /\ Len(evidence) = 1
    /\ framesSent > 0
    /\ chunksSent > 0

\* C25: a connection attempt is made only by the step of confirm in REVIEW,
\* one per confirm; no other step, in particular not the close or the error
\* of a session, makes one.
C25_ConnectOnlyOnConfirm ==
    [][ (\E s \in Sessions : sessions[s] = "unused" /\ sessions'[s] # "unused") =>
            /\ patrolState = "REVIEW"
            /\ last'.op = "confirm"
            /\ Cardinality({s \in Sessions : sessions[s] = "unused"
                                              /\ sessions'[s] # "unused"}) = 1 ]_vars

\* C25 happens: the first session has ended with onclose; the second
\* attempt was made by a later confirm
C25_ReopenedByConfirm ==
    /\ sessions[1] = "closed"
    /\ sessions[2] = "connecting"
    /\ last.op = "confirm"
    /\ \E i \in DOMAIN logs : logs[i].message = "Connection Closed"

----------------------------------------------------------------------------
(* Failed AUTH submissions                                                 *)

\* the step just taken was an AUTH submission that ended without SUMMARY:
\* rejected before the biometric call, or settled with a mismatch or an error
FailedSubmission ==
    \/ last.op = "authSubmit" /\ ~last.called
    \/ last.op = "authDone" /\ patrolState # "SUMMARY"

\* C31: after every AUTH submission that does not reach SUMMARY the
\* verifying flag is false and the state is AUTH, so that a further
\* submission is accepted.
C31_FailedSubmitStaysInAuth ==
    FailedSubmission => ~isVerifying /\ patrolState = "AUTH"

Perceived(l, text) ==
    Cardinality({i \in DOMAIN l : l[i].source = "PERCEPTION" /\ l[i].message = text})

\* the PERCEPTION entries of a log
Perceptions(l) == Cardinality({i \in DOMAIN l : l[i].source = "PERCEPTION"})

\* C33: a narration text of at most 5 characters is classified as any other
\* text (the level follows its keywords, a DANGER text is counted) but
\* appends no log entry; a narration text of more than 5 characters appends
\* exactly one PERCEPTION log entry, which holds that text.
C33_ShortFragmentNotLogged ==
    [][last'.op = "narration" =>
        /\ threatLevel' = IF Mentions(last'.text, DangerWords) THEN "DANGER"
                          ELSE IF Mentions(last'.text, CautionWords) THEN "CAUTION"
                          ELSE IF Mentions(last'.text, SafeWords) THEN "SAFE"
                          ELSE threatLevel
        /\ sessionStats'.threats = IF Mentions(last'.text, DangerWords)
                                   THEN sessionStats.threats + 1
                                   ELSE sessionStats.threats
        /\ Len(Chars(last'.text)) <= 5 => logs' = logs
        /\ Len(Chars(last'.text)) > 5
              => /\ Perceptions(logs') = Perceptions(logs) + 1
                 /\ Perceived(logs', last'.text) = Perceived(logs, last'.text) + 1
                 /\ logs'[Len(logs')] = [message |-> last'.text, source |-> "PERCEPTION",
                                         level |-> "info"]
                 /\ SubSeq(logs', 1, Len(logs)) = logs]_vars

\* C33 happens: after a DANGER narration was logged, a fragment of exactly
\* five characters with a SAFE keyword set the level to SAFE and is not in
\* the log
C33_FiveCharactersApplied ==
    /\ last.op = "narration"
    /\ Len(Chars(last.text)) = 5
    /\ threatLevel = "SAFE"
    /\ sessionStats.threats > 0
    /\ Perceptions(logs) > 0
    /\ Perceived(logs, last.text) = 0

\* C34: a message whose audio payload cannot be decoded is dropped and
\* logged: the next-start cursor is unchanged, a log entry records the drop
\* and the narration text of the same message is handled (the level follows
\* its keywords and a text of more than 5 characters is logged).
C34_MalformedPayloadDropped ==
    [][last'.op = "malformedAudio" =>
        /\ nextStartTimeRef' = nextStartTimeRef
        /\ scheduled' = scheduled
        /\ Len(logs') > Len(logs)
        /\ Mentions(last'.text, DangerWords)
              => /\ threatLevel' = "DANGER"
                 /\ Perceived(logs', last'.text) = Perceived(logs, last'.text) + 1]_vars

\* C35: a frame is sent only on a tick at which the camera yields a frame
\* and the session opened by the current confirm (the attempt that started
\* the timer) is open; the tick leaves the timer running.
C35_FrameOnlyToOpenSession ==
    last.op = "frameTick" =>
        /\ timers[last.timer] = "running"
        /\ last.sent => /\ sessionRef = Some(last.timer)
                        /\ sessions[last.timer] = "open"

\* the SYSTEM entries of a log
SystemEntries(l) == Cardinality({i \in DOMAIN l : l[i].source = "SYSTEM"})

\* the step just taken ended in an error: the transport of a session broke,
\* a connection attempt failed, a manual scan or a baseline capture failed,
\* or a submission of the unlock form failed
ErrorOutcome ==
    \/ last'.op \in {"sessionError", "connectFailed"}
    \/ last'.op = "confirm" /\ ~last'.started
    \/ last'.op = "deepScanDone" /\ last'.reply.kind # "json"
    \/ last'.op = "baselineDone" /\ ~last'.ok
    \/ last'.op = "authSubmit" /\ ~last'.called
    \/ last'.op = "authDone" /\ patrolState' # "SUMMARY"

\* C36: every error outcome appends a SYSTEM-sourced log entry.
C36_ErrorsLogged ==
    [][ErrorOutcome => SystemEntries(logs') > SystemEntries(logs)]_vars

\* C37: narration has side effects only while the patrol state is ACTIVE: a
\* narration that arrives in another state (after the lock) leaves the
\* threat level, the threat counter and the evidence list as they were.
C37_NarrationOnlyInActive ==
    [][(last'.op = "narration" /\ patrolState # "ACTIVE")
          => /\ threatLevel' = threatLevel
             /\ sessionStats' = sessionStats
             /\ evidence' = evidence]_vars

\* the lock has closed the input audio context that App refers to
InputClosedByLock ==
    /\ patrolState = "AUTH"
    /\ inputAudioContextRef # null
    /\ audioContexts[Get(inputAudioContextRef)].input = "closed"

\* C38: after lock has closed the input audio context no audio chunk is
\* sent, whether the connection resolved before the lock or after it.
C38_NoChunkAfterLock ==
    [][InputClosedByLock => chunksSent' = chunksSent]_vars

\* C39: the first inbound audio buffer of each streaming session is
\* scheduled at the current time of the output clock of that session.
C39_FirstBufferAtClock ==
    [][scheduled' # scheduled =>
          LET e == scheduled'[Len(scheduled')]
          IN  (\A i \in DOMAIN scheduled : scheduled[i].ctx # e.ctx)
                 => e.start = outputClock[e.ctx]]_vars

\* what the report shows of a patrol
Held == <<evidence, sessionStats, baselineData, baselineImage>>

\* C40: the lock and every step taken while the unlock form is shown, each
\* submission included, leave the evidence list, the session counters and
\* the baseline profile unchanged, so that SUMMARY shows what was held when
\* the patrol was locked.
C40_HeldFromLockToSummary ==
    [][(last'.op = "lock" \/ patrolState = "AUTH") => Held' = Held]_vars

====
